---- MODULE Spec2Model ----
(***************************************************************************)
(* Model of delta/imagery/dataset.py: the region partitioners, the region  *)
(* descriptor lines of the image list, the nodata filters and the dataset  *)
(* assembled by ImageryDataset.                                            *)
(***************************************************************************)
EXTENDS Integers, Sequences, FiniteSets, TLC

\* ---------------------------------------------------------------- bounds
MaxWidth == 3
MaxHeight == 15
MaxSplits == 11
MaxPathLen == 2
MaxLineLen == 4
MaxIndex == 11
MaxChunks == 2
MaxThreads == 49
FilterBands == 2
FilterPixels == 2
MaxFiles == 3
MaxImgW == 2
MaxImgH == 3
MaxRegions == 2
MaxChunkSize == 2

\* ------------------------------------------------------------- variables
\* the partitioners
VARIABLES
    image_size,     \* <<width, height>> handed to a partitioner
    num_splits,     \* the partitioner's num_splits
    region,         \* region index of the last partitioner call
    roi_function,   \* "none" | "horiz" | "tile": partitioner called last
    roi             \* outcome of that call

\* the region descriptor lines
VARIABLES
    written,        \* the (path, r) entry make_image_list wrote last, or <<>>
    line,           \* the line handed to load_image_region
    decoded,        \* outcome of decoding line at the start of the load
    image_opened    \* whether the load went on to open the image

\* parallel_filter_chunks
VARIABLES
    data,           \* the chunk batch: data[i][band][pixel], all from 0
    num_threads,
    filter_pc,      \* "idle" | "pool" | "returned"
    splits,         \* splits[k + 1] = <<start_index, stop_index>> of task k
    valid_chunks,   \* valid_chunks[i]: the shared flag of chunk i
    task_next,      \* task_next[k + 1]: the index task k tests next
    valid_indices,  \* the indices returned
    tested,         \* observer: how often chunk i was tested
    writers         \* observer: the tasks that wrote valid_chunks[i]

\* ImageryDataset
VARIABLES
    image_folder,   \* the files under image_folder: [path, ext, size] each
    image_type,
    num_regions,    \* the constructor's num_regions
    chunk_size,
    cache_folder,   \* whether cache_folder exists
    init_status,    \* "none" | "ok" | the exception __init__ raised
    list_file,      \* the text at list_path
    self_num_regions,  \* self._num_regions
    self_ds,        \* self._ds
    dataset_result, \* what dataset() returned last
    pulled,         \* elements of the zipped dataset consumed so far
    last_pair       \* the element the filter saw last, and its verdict

bandVars == <<image_size, num_splits, region, roi_function, roi>>
codecVars == <<written, line, decoded, image_opened>>
filterVars == <<data, num_threads, filter_pc, splits, valid_chunks, task_next,
                valid_indices, tested, writers>>

\* ------------------------------------------------- IEEE-754 double helpers
\* Python's "/" on numbers and "*" with a float operand are binary64
\* operations, each rounded to nearest (ties to even).  The operators below
\* compute math.floor(fl(fl(a / n) * i)) exactly, with integers small enough
\* for TLC, from the residue of the correctly rounded quotient.

RECURSIVE Pow2(_)
Pow2(e) == IF e = 0 THEN 1 ELSE 2 * Pow2(e - 1)

RECURSIVE Pow2Mod(_, _)
\* 2^e mod n
Pow2Mod(e, n) == IF e = 0 THEN 1 % n ELSE (2 * Pow2Mod(e - 1, n)) % n

RECURSIVE Log2Floor(_)
\* floor(log2(x)) for x >= 1
Log2Floor(x) == IF x < 2 THEN 0 ELSE 1 + Log2Floor(x \div 2)

IsPow2(x) == Pow2(Log2Floor(x)) = x

RECURSIVE ShiftUp(_, _)
\* the least m >= 0 with a * 2^m >= n
ShiftUp(a, n) == IF a >= n THEN 0 ELSE 1 + ShiftUp(2 * a, n)

\* binary exponent k of the quotient a / n: 2^k <= a/n < 2^(k+1)
QuotExp(a, n) == IF a >= n THEN Log2Floor(a \div n) ELSE 0 - ShiftUp(a, n)

\* fl(a / n) = M * 2^(k-52) with M = round(a * 2^(52-k) / n); the signed
\* residue r = a * 2^(52-k) - M * n says on which side of a/n the double
\* lies (r > 0: below, r < 0: above, r = 0: exact).  A tie needs an odd
\* divisor of a that is at least 2^53, so it does not occur.
QuotResidue(a, n) ==
    LET rp == (a * Pow2Mod(52 - QuotExp(a, n), n)) % n
    IN  IF 2 * rp <= n THEN rp ELSE rp - n

\* math.floor(fl(fl(a / n) * j)) for a >= 1, n >= 1, j >= 1.  The exact
\* product is a*j/n - r*j/(n*2^(52-k)); it is within 2^-40 of a*j/n, so the
\* floor differs from floor(a*j/n) only when a*j/n is an integer v and the
\* product rounds to the double just below v.
FloorPos(a, n, j) ==
    LET v == (a * j) \div n
        r == QuotResidue(a, n)
        d == Log2Floor(v) - QuotExp(a, n)
        half == IF IsPow2(v) THEN n * Pow2(d) ELSE 2 * n * Pow2(d)
    IN  IF (a * j) % n # 0 \/ r <= 0 THEN v
        ELSE IF 4 * r * j <= half THEN v ELSE v - 1

\* math.ceil(fl(fl(a / n) * j)) for a >= 1, n >= 1, j >= 1
CeilPos(a, n, j) ==
    LET v == (a * j) \div n
        r == QuotResidue(a, n)
        d == Log2Floor(v) - QuotExp(a, n)
    IN  IF (a * j) % n # 0 THEN v + 1
        ELSE IF r < 0 /\ 2 * (0 - r) * j > n * Pow2(d) THEN v + 1 ELSE v

\* math.floor((a / n) * i) as Python evaluates it in floating point
FloorScaled(a, n, i) ==
    IF a = 0 \/ i = 0 THEN 0
    ELSE IF i > 0 THEN FloorPos(a, n, i)
    ELSE 0 - CeilPos(a, n, 0 - i)

\* ------------------------------------------------------------ partitioners
Rectangle(min_x, min_y, max_x, max_y) ==
    [min_x |-> min_x, min_y |-> min_y, max_x |-> max_x, max_y |-> max_y]

Returned(v) == [status |-> "ok", value |-> v]
Raised(e) == [status |-> e, value |-> <<>>]
NotCalled == [status |-> "none", value |-> <<>>]

\* self._ds: the zipped dataset behind the filter, known by the elements
\* the filter will be offered
NoDataset == [kind |-> "none", elements |-> <<>>]
FilteredDataset(elements) == [kind |-> "filter", elements |-> elements]

get_roi_horiz_band_split(size, r, n) ==
    IF ~(r < n) THEN Raised("AssertionError")
    ELSE Returned(Rectangle(0, FloorScaled(size[2], n, r),
                            size[1], FloorScaled(size[2], n, r + 1)))

\* math.floor(region / num_splits): the double quotient of two integers
\* below 2^26 never crosses an integer, so its floor is the integer floor
tile_row(r, n) == r \div n

tile_col_wrong_modulus(r, n) == r % (n + 1)

tile_col(r, n) == r % n

get_roi_tile_split(size, r, n) ==
    LET num_tiles == n * n
        tile_width == size[1] \div n
        tile_height == size[2] \div n
    IN  IF ~(r < num_tiles) THEN Raised("AssertionError")
        ELSE Returned(Rectangle(tile_width * tile_col(r, n),
                                tile_height * tile_row(r, n),
                                tile_width * (tile_col(r, n) + 1),
                                tile_height * (tile_row(r, n) + 1)))


\* ------------------------------------------------ region descriptor lines
\* Text is a sequence of one-character strings.
Digits == <<"0", "1", "2", "3", "4", "5", "6", "7", "8", "9">>
IsDigit(c) == \E d \in 1..10 : Digits[d] = c
DigitVal(c) == (CHOOSE d \in 1..10 : Digits[d] = c) - 1
IsSpace(c) == c \in {" ", "\n"}

RECURSIVE str_nat(_)
str_nat(n) == IF n < 10 THEN <<Digits[n + 1]>>
              ELSE str_nat(n \div 10) \o <<Digits[(n % 10) + 1]>>

\* Python str() of an integer
str(n) == IF n < 0 THEN <<"-">> \o str_nat(0 - n) ELSE str_nat(n)

RECURSIVE lstrip(_)
lstrip(s) == IF s # <<>> /\ IsSpace(Head(s)) THEN lstrip(Tail(s)) ELSE s

RECURSIVE rstrip(_)
rstrip(s) == IF s # <<>> /\ IsSpace(s[Len(s)])
             THEN rstrip(SubSeq(s, 1, Len(s) - 1)) ELSE s

\* Python str.strip()
strip(s) == rstrip(lstrip(s))

RECURSIVE split(_, _)
\* Python str.split(sep) for a one-character separator
split(s, sep) ==
    IF \A i \in 1..Len(s) : s[i] # sep THEN <<s>>
    ELSE LET i == CHOOSE i \in 1..Len(s) :
                    s[i] = sep /\ \A j \in 1..(i - 1) : s[j] # sep
         IN  <<SubSeq(s, 1, i - 1)>> \o split(SubSeq(s, i + 1, Len(s)), sep)

RECURSIVE digits_value(_)
digits_value(s) == IF s = <<>> THEN 0
                   ELSE 10 * digits_value(SubSeq(s, 1, Len(s) - 1))
                        + DigitVal(s[Len(s)])

AllDigits(s) == s # <<>> /\ \A i \in 1..Len(s) : IsDigit(s[i])

\* Python int() of a string: surrounding whitespace is ignored, a sign may
\* precede the digits, anything else raises ValueError
int(s) ==
    LET t == strip(s)
    IN  IF AllDigits(t) THEN Returned(digits_value(t))
        ELSE IF t # <<>> /\ Head(t) = "-" /\ AllDigits(Tail(t))
             THEN Returned(0 - digits_value(Tail(t)))
        ELSE Raised("ValueError")

\* the text make_image_list writes for one (path, r)
manifest_entry_no_comma(path, r) == path \o <<" ">> \o str(r) \o <<"\n">>

manifest_entry(path, r) == path \o <<",">> \o str(r) \o <<"\n">>

\* tf.data.TextLineDataset: the lines of a text, without their newlines
text_lines(text) ==
    LET parts == split(text, "\n")
    IN  IF parts[Len(parts)] = <<>> THEN SubSeq(parts, 1, Len(parts) - 1)
        ELSE parts

\* the first statements of load_image_region and of load_fake_labels:
\* split the line and convert its two fields
decode_line(l) ==
    LET parts == split(l, ",")
    IN  IF Len(parts) < 2 THEN Raised("IndexError")
        ELSE IF int(strip(parts[2])).status # "ok" THEN Raised("ValueError")
        ELSE Returned([path |-> strip(parts[1]),
                       region |-> int(strip(parts[2])).value])

RECURSIVE TextUpTo(_, _)
\* all texts over the characters cs of length at most n
TextUpTo(cs, n) ==
    IF n = 0 THEN {<<>>}
    ELSE LET shorter == TextUpTo(cs, n - 1)
         IN  shorter \cup {t \o <<c>> : t \in shorter, c \in cs}

PathChars == {"a", " ", ",", "\n"}
LineChars == {"a", " ", ",", "-", "1"}

\* ------------------------------------------------------------ nodata filters
count_nonzero(a) == Cardinality({p \in DOMAIN a : a[p] # 0})

\* the elements of a chunk, as <<band, pixel>> positions
Elements(chunk) == UNION {{<<b, q>> : q \in DOMAIN chunk[b]} : b \in DOMAIN chunk}

\* tf.math.zero_fraction: zeros over size, kept as the two counts
zero_fraction(chunk) ==
    [zeros |-> Cardinality({bp \in Elements(chunk) : chunk[bp[1]][bp[2]] = 0}),
     size |-> Cardinality(Elements(chunk))]

is_valid_first_band_only(chunk) == count_nonzero(chunk[0]) = Cardinality(DOMAIN chunk[0])

\* the predicate of ds.filter: tf.math.equal(tf.math.zero_fraction(chunk), 0)
is_valid(chunk) == zero_fraction(chunk).zeros = 0

\* the (start, stop) pairs parallel_filter_chunks hands to the pool
thread_splits(num_chunks, threads) ==
    [k \in 1..threads |-> <<FloorScaled(num_chunks, threads, k - 1),
                            FloorScaled(num_chunks, threads, k)>>]

datasetVars == <<image_folder, image_type, num_regions, chunk_size,
                 cache_folder, init_status, list_file, self_num_regions,
                 self_ds, dataset_result, pulled, last_pair>>

vars == <<bandVars, codecVars, filterVars, datasetVars>>

BandIdle ==
    /\ image_size = <<1, 1>>
    /\ num_splits = 1
    /\ region = 0
    /\ roi_function = "none"
    /\ roi = NotCalled

CodecIdle ==
    /\ written = <<>>
    /\ line = <<>>
    /\ decoded = NotCalled
    /\ image_opened = FALSE

DatasetIdle ==
    /\ image_folder = <<>>
    /\ image_type = "tif"
    /\ num_regions = 1
    /\ chunk_size = 1
    /\ cache_folder = FALSE
    /\ init_status = "none"
    /\ list_file = <<>>
    /\ self_num_regions = 0
    /\ self_ds = NoDataset
    /\ dataset_result = NoDataset
    /\ pulled = 0
    /\ last_pair = <<>>

FilterIdle ==
    /\ data = <<>>
    /\ num_threads = 1
    /\ filter_pc = "idle"
    /\ splits = <<>>
    /\ valid_chunks = <<>>
    /\ task_next = <<>>
    /\ valid_indices = <<>>
    /\ tested = <<>>
    /\ writers = <<>>

InitBand ==
    /\ CodecIdle
    /\ FilterIdle
    /\ DatasetIdle
    /\ image_size \in (1..MaxWidth) \X (1..MaxHeight)
    /\ num_splits \in 1..MaxSplits
    /\ region = 0
    /\ roi_function = "none"
    /\ roi = NotCalled

CallHorizBand ==
    \E r \in (0 - 2)..(num_splits + 1) :
        /\ region' = r
        /\ roi_function' = "horiz"
        /\ roi' = get_roi_horiz_band_split(image_size, r, num_splits)
        /\ UNCHANGED <<image_size, num_splits, codecVars, filterVars, datasetVars>>

CallTile ==
    \E r \in (0 - 2)..(num_splits * num_splits + 1) :
        /\ region' = r
        /\ roi_function' = "tile"
        /\ roi' = get_roi_tile_split(image_size, r, num_splits)
        /\ UNCHANGED <<image_size, num_splits, codecVars, filterVars, datasetVars>>

NextBand == CallHorizBand \/ CallTile

SpecBand == InitBand /\ [][NextBand]_vars

Abs(x) == IF x < 0 THEN 0 - x ELSE x

\* C1: the horizontal bands of regions 0 .. num_splits-1 span the full width,
\* the first starts at row 0, the last ends at row height, and consecutive
\* bands meet with at most one pixel of overlap or gap.
C1_BandsCoverImage ==
    (roi_function = "horiz" /\ region \in 0..(num_splits - 1)) =>
        /\ roi.status = "ok"
        /\ roi.value.min_x = 0
        /\ roi.value.max_x = image_size[1]
        /\ (region = 0 => roi.value.min_y = 0)
        /\ (region = num_splits - 1 => roi.value.max_y = image_size[2])
        /\ (region < num_splits - 1 =>
               Abs(roi.value.max_y
                   - get_roi_horiz_band_split(image_size, region + 1,
                                              num_splits).value.min_y) <= 1)

num_regions_of(f, n) == IF f = "tile" THEN n * n ELSE n

\* C6: both partitioners fail, returning no Rectangle, whenever the region
\* index is negative or not below the number of regions.
C6_OutOfRangeRegionFails ==
    (roi_function # "none"
       /\ (region < 0 \/ region >= num_regions_of(roi_function, num_splits)))
    => roi.status = "AssertionError"

InitCodec ==
    /\ BandIdle
    /\ FilterIdle
    /\ DatasetIdle
    /\ written = <<>>
    /\ line \in TextUpTo(LineChars, MaxLineLen)
    /\ decoded = NotCalled
    /\ image_opened = FALSE

\* make_image_list writes the entry of (path, r) and the line dataset hands
\* the line read back to the loader
WriteEntry ==
    \E path \in TextUpTo(PathChars, MaxPathLen) \ {<<>>}, r \in 0..MaxIndex :
        /\ written' = [path |-> path, index |-> r]
        /\ line' = text_lines(manifest_entry(path, r))[1]
        /\ decoded' = NotCalled
        /\ image_opened' = FALSE
        /\ UNCHANGED <<bandVars, filterVars, datasetVars>>

\* load_image_region up to the point where it opens the image: a line that
\* does not decode raises before prep_function and the reader are reached
DecodeLine ==
    /\ decoded = NotCalled
    /\ decoded' = decode_line(line)
    /\ image_opened' = (decode_line(line).status = "ok")
    /\ UNCHANGED <<written, line, bandVars, filterVars, datasetVars>>

NextCodec == WriteEntry \/ DecodeLine

SpecCodec == InitCodec /\ [][NextCodec]_vars

HasComma(s) == \E i \in 1..Len(s) : s[i] = ","

\* C5 as claimed: decoding the line written for (path, index) gives back
\* (path, index) for every path without a comma.
C5_RoundTripAsClaimed ==
    (written # <<>> /\ decoded # NotCalled /\ ~HasComma(written.path)) =>
        decoded = Returned([path |-> written.path, region |-> written.index])

\* C5 amended: decoding the line written for (path, index) gives back
\* (path, index) for every path that has no comma, no line break and no
\* leading or trailing whitespace.
C5_RoundTrip ==
    (written # <<>> /\ decoded # NotCalled /\ ~HasComma(written.path)
       /\ (\A i \in 1..Len(written.path) : written.path[i] # "\n")
       /\ strip(written.path) = written.path) =>
        decoded = Returned([path |-> written.path, region |-> written.index])

C5_Witness ==
    /\ written = [path |-> <<"a", "a">>, index |-> 10]
    /\ line = <<"a", "a", ",", "1", "0">>
    /\ decoded = Returned([path |-> <<"a", "a">>, region |-> 10])

\* C8: decoding trims whitespace around both fields, and it fails before the
\* image is opened whenever the line has fewer than two comma-separated
\* fields or its index field does not parse as a non-negative integer.
C8_MalformedLineFails ==
    decoded # NotCalled =>
        LET parts == split(line, ",")
            malformed == \/ Len(parts) < 2
                         \/ int(parts[2]).status # "ok"
                         \/ int(parts[2]).value < 0
        IN  /\ malformed => /\ decoded.status \in {"IndexError", "ValueError"}
                             /\ ~image_opened
            /\ ~malformed =>
                  decoded = Returned([path |-> strip(parts[1]),
                                      region |-> int(parts[2]).value])

\* --------------------------------------- parallel_filter_chunks specification
ChunkValues == [0..(FilterBands - 1) -> [0..(FilterPixels - 1) -> {0, 1}]]

Batches(n, values) == [0..(n - 1) -> values]

FilterStart ==
    /\ filter_pc = "idle"
    /\ splits = <<>>
    /\ valid_chunks = <<>>
    /\ task_next = <<>>
    /\ valid_indices = <<>>
    /\ tested = <<>>
    /\ writers = <<>>

InitFilter ==
    /\ BandIdle
    /\ CodecIdle
    /\ DatasetIdle
    /\ FilterStart
    /\ \E n \in 0..MaxChunks : data \in Batches(n, ChunkValues)
    /\ num_threads \in 1..MaxThreads

\* (num_chunks, unused_num_bands, width, height) = data.shape(): the batch
\* is taken as the function calls it, an array whose shape() gives its
\* four dimensions
num_chunks == Cardinality(DOMAIN data)

\* lines 148-172: the flags, the splits, and the pool's map over the splits
StartPool ==
    /\ filter_pc = "idle"
    /\ filter_pc' = "pool"
    /\ valid_chunks' = [i \in 0..(num_chunks - 1) |-> TRUE]
    /\ splits' = thread_splits(num_chunks, num_threads)
    /\ task_next' = [k \in 1..num_threads |->
                       thread_splits(num_chunks, num_threads)[k][1]]
    /\ tested' = [i \in 0..(num_chunks - 1) |-> 0]
    /\ writers' = [i \in 0..(num_chunks - 1) |-> {}]
    /\ UNCHANGED <<data, num_threads, valid_indices, bandVars, codecVars,
                   datasetVars>>

\* one iteration of the loop of check_chunks in the task of splits[k]; the
\* tasks run on the pool's threads and interleave between iterations
CheckChunk(k) ==
    LET i == task_next[k]
        invalid == count_nonzero(data[i][0]) # Cardinality(DOMAIN data[i][0])
    IN  /\ filter_pc = "pool"
        /\ i < splits[k][2]
        /\ task_next' = [task_next EXCEPT ![k] = i + 1]
        /\ tested' = [tested EXCEPT ![i] = @ + 1]
        /\ valid_chunks' = IF invalid THEN [valid_chunks EXCEPT ![i] = FALSE]
                           ELSE valid_chunks
        /\ writers' = IF invalid THEN [writers EXCEPT ![i] = @ \cup {k}]
                      ELSE writers
        /\ UNCHANGED <<data, num_threads, filter_pc, splits, valid_indices,
                       bandVars, codecVars, datasetVars>>

RECURSIVE IndicesFrom(_, _, _)
\* the loop of lines 177-180 from index i on
IndicesFrom(i, n, flags) ==
    IF i >= n THEN <<>>
    ELSE (IF flags[i] THEN <<i>> ELSE <<>>) \o IndicesFrom(i + 1, n, flags)

\* pool.join() returns once every task has run off its range; then the
\* indices still flagged are collected and the batch is returned
JoinAndReturn ==
    /\ filter_pc = "pool"
    /\ \A k \in 1..num_threads : task_next[k] >= splits[k][2]
    /\ filter_pc' = "returned"
    /\ valid_indices' = IndicesFrom(0, num_chunks, valid_chunks)
    /\ UNCHANGED <<data, num_threads, splits, valid_chunks, task_next, tested,
                   writers, bandVars, codecVars, datasetVars>>

NextFilter ==
    \/ StartPool
    \/ \E k \in 1..num_threads : CheckChunk(k)
    \/ JoinAndReturn

SpecFilter == InitFilter /\ [][NextFilter]_vars

InSeq(x, sq) == \E j \in 1..Len(sq) : sq[j] = x

\* C3: once parallel_filter_chunks has returned, a chunk is among the chunks
\* it kept exactly when the inline filter of ImageryDataset keeps it.
C3_FiltersAgree ==
    filter_pc = "returned" =>
        \A i \in 0..(num_chunks - 1) :
            InSeq(i, valid_indices) <=> is_valid(data[i])

\* C10: the ranges handed to the pool are contiguous, disjoint and cover
\* 0 .. num_chunks-1 exactly once; no flag is written by two tasks; every
\* chunk is tested at most once while the pool runs and exactly once when it
\* is joined; the surviving indices are returned in increasing order.
C10_RangesCoverEveryChunkOnce ==
    filter_pc # "idle" =>
        /\ splits[1][1] = 0
        /\ splits[num_threads][2] = num_chunks
        /\ \A k \in 1..num_threads : splits[k][1] <= splits[k][2]
        /\ \A k \in 1..(num_threads - 1) : splits[k][2] = splits[k + 1][1]
        /\ \A i \in 0..(num_chunks - 1) :
              /\ Cardinality(writers[i]) <= 1
              /\ tested[i] <= 1
              /\ filter_pc = "returned" => tested[i] = 1
        /\ \A j \in 1..(Len(valid_indices) - 1) :
              valid_indices[j] < valid_indices[j + 1]

\* ------------------------------------------------------------ ImageryDataset
num_bands_dict == [landsat |-> 8, worldview |-> 8, tif |-> 3, rgba |-> 3]

ext_dict == [landsat |-> <<".", "g", "z">>,
             worldview |-> <<".", "z", "i", "p">>,
             tif |-> <<".", "t", "i", "f">>,
             rgba |-> <<".", "t", "i", "f">>]

RECURSIVE make_image_list_from(_, _, _, _)
\* make_image_list from file k of the folder on: the text written and the
\* number of entries
make_image_list_from(k, folder, ext, regions) ==
    IF k > Len(folder) THEN [text |-> <<>>, num_entries |-> 0]
    ELSE LET rest == make_image_list_from(k + 1, folder, ext, regions)
             entries == [r \in 0..(regions - 1) |->
                           manifest_entry(folder[k].path, r)]
             RECURSIVE Concat(_)
             Concat(r) == IF r >= regions THEN <<>>
                          ELSE entries[r] \o Concat(r + 1)
         IN  IF folder[k].ext = ext
             THEN [text |-> Concat(0) \o rest.text,
                   num_entries |-> regions + rest.num_entries]
             ELSE rest

make_image_list(folder, ext, regions) ==
    make_image_list_from(1, folder, ext, regions)

assert_always_passes(n) == n >= 0

\* the assertion on self._num_regions
assert_num_regions(n) == n > 0

prep_simple_image(path) == <<path>>

\* the prep function __init__ selects; the archive types resolve a path to
\* one handle per band of the same source image
image_prep_func(type, path) ==
    IF type \in {"landsat", "worldview"}
    THEN [b \in 1..num_bands_dict[type] |-> path]
    ELSE prep_simple_image(path)

\* MultiTiffFileReader.image_size(): the pixel size of the image loaded first
reader_image_size(folder, input_paths) ==
    (CHOOSE f \in {folder[k] : k \in 1..Len(folder)} :
        f.path = input_paths[1]).size

\* chunks of size cs at stride cs - overlap that fit in a span; none is padded
chunks_along(span, cs, overlap) ==
    IF span < cs THEN 0 ELSE ((span - cs) \div (cs - overlap)) + 1

\* MultiTiffFileReader.parallel_load_chunks: the number of chunks it returns
parallel_load_chunks_count(rect, cs, overlap) ==
    chunks_along(rect.max_x - rect.min_x, cs, overlap)
      * chunks_along(rect.max_y - rect.min_y, cs, overlap)

\* load_image_region: the leading dimension of the chunk batch of a line
load_image_region(l, folder, type, regions, cs) ==
    LET dec == decode_line(l)
    IN  IF dec.status # "ok" THEN dec
        ELSE LET input_paths == image_prep_func(type, dec.value.path)
                 size == reader_image_size(folder, input_paths)
                 rect == get_roi_horiz_band_split(size, dec.value.region, regions)
             IN  IF rect.status # "ok" THEN rect
                 ELSE Returned(parallel_load_chunks_count(rect.value, cs, 0))

fake_label(k) == IF k < 10 THEN 1 ELSE IF k < 20 THEN 2 ELSE 0

full_shape_one_more(n) == n + 1

\* full_shape = chunk_data.shape[0]
full_shape(n) == n

\* load_fake_labels: the label batch of a line
load_fake_labels(l, folder, type, regions, cs) ==
    LET dec == decode_line(l)
    IN  IF dec.status # "ok" THEN dec
        ELSE LET input_paths == image_prep_func(type, dec.value.path)
                 size == reader_image_size(folder, <<input_paths[1]>>)
                 rect == get_roi_horiz_band_split(size, dec.value.region, regions)
             IN  IF rect.status # "ok" THEN rect
                 ELSE Returned([k \in 1..full_shape(
                                   parallel_load_chunks_count(rect.value, cs, 0))
                                |-> fake_label(k - 1)])

\* ds: the lines of the list file
ds_lines == text_lines(list_file)

RECURSIVE chunk_set_from(_, _)
\* chunk_set after flat_map: the chunks of line d on, each with the line and
\* the index in that line's batch it came from
chunk_set_from(d, lines) ==
    IF d > Len(lines) THEN <<>>
    ELSE LET batch == load_image_region(lines[d], image_folder, image_type,
                                        num_regions, chunk_size)
         IN  [k \in 1..batch.value |-> [desc |-> d, idx |-> k - 1]]
               \o chunk_set_from(d + 1, lines)

RECURSIVE label_set_from(_, _)
\* label_set after flat_map
label_set_from(d, lines) ==
    IF d > Len(lines) THEN <<>>
    ELSE LET batch == load_fake_labels(lines[d], image_folder, image_type,
                                       num_regions, chunk_size)
         IN  [k \in 1..Len(batch.value) |->
                 [desc |-> d, idx |-> k - 1, label |-> batch.value[k]]]
               \o label_set_from(d + 1, lines)

Min(a, b) == IF a < b THEN a ELSE b

\* tf.data.Dataset.zip((chunk_set, label_set)): pairs by position, as long
\* as the shorter of the two
zipped(lines) ==
    LET cs == chunk_set_from(1, lines)
        ls == label_set_from(1, lines)
    IN  [n \in 1..Min(Len(cs), Len(ls)) |-> [chunk |-> cs[n], label |-> ls[n]]]

\* the pixel contents an image may hold for a chunk of b bands and p pixels:
\* all zero, no zero, and every chunk that differs from those in one pixel
ChunkContents(b, p) ==
    LET Const(v) == [i \in 0..(b - 1) |-> [j \in 0..(p - 1) |-> v]]
        OneOff(e, v) == [i \in 0..(b - 1) |-> [j \in 0..(p - 1) |->
                            IF <<i, j>> = e THEN 1 - v ELSE v]]
    IN  {Const(0), Const(1)}
          \cup {OneOff(e, v) : e \in (0..(b - 1)) \X (0..(p - 1)), v \in {0, 1}}

Exts == {ext_dict["tif"], ext_dict["landsat"]}

file_path(k, ext) == <<"f">> \o str(k) \o ext

DatasetStart ==
    /\ cache_folder = FALSE
    /\ init_status = "none"
    /\ list_file = <<>>
    /\ self_num_regions = 0
    /\ self_ds = NoDataset
    /\ dataset_result = NoDataset
    /\ pulled = 0
    /\ last_pair = <<>>

\* a folder of files of any of the extensions, every image one pixel
InitFolders ==
    /\ \E n \in 0..MaxFiles : \E exts \in [1..n -> Exts] :
          image_folder = [k \in 1..n |->
              [path |-> file_path(k, exts[k]), ext |-> exts[k], size |-> <<1, 1>>]]
    /\ image_type \in {"tif", "landsat", "png"}
    /\ num_regions \in 0..MaxRegions
    /\ chunk_size = 1

\* a folder of one image of the requested type, of any size
InitImages ==
    /\ image_type \in {"tif", "landsat"}
    /\ \E size \in (1..MaxImgW) \X (1..MaxImgH) :
          image_folder = <<[path |-> file_path(1, ext_dict[image_type]),
                            ext |-> ext_dict[image_type], size |-> size]>>
    /\ num_regions \in 1..MaxRegions
    /\ chunk_size \in 1..MaxChunkSize

InitDataset ==
    /\ BandIdle
    /\ CodecIdle
    /\ FilterIdle
    /\ DatasetStart
    /\ (InitFolders \/ InitImages)

\* ImageryDataset.__init__
Construct ==
    /\ init_status = "none"
    /\ IF image_type \notin DOMAIN num_bands_dict
       THEN /\ init_status' = "KeyError"
            /\ UNCHANGED <<cache_folder, list_file, self_num_regions, self_ds>>
       ELSE LET made == make_image_list(image_folder, ext_dict[image_type],
                                        num_regions)
            IN  /\ cache_folder' = TRUE
                /\ list_file' = made.text
                /\ self_num_regions' = made.num_entries
                /\ IF assert_num_regions(made.num_entries)
                   THEN /\ init_status' = "ok"
                        /\ self_ds' = FilteredDataset(zipped(text_lines(made.text)))
                   ELSE /\ init_status' = "AssertionError"
                        /\ self_ds' = NoDataset
    /\ UNCHANGED <<image_folder, image_type, num_regions, chunk_size,
                   dataset_result, pulled, last_pair, bandVars, codecVars,
                   filterVars>>

\* ImageryDataset.dataset()
CallDataset ==
    /\ init_status = "ok"
    /\ dataset_result' = self_ds
    /\ UNCHANGED <<image_folder, image_type, num_regions, chunk_size,
                   cache_folder, init_status, list_file, self_num_regions,
                   self_ds, pulled, last_pair, bandVars, codecVars, filterVars>>

\* the consumer draws the next element of the zipped dataset through the
\* filter; the pixels of the chunk are whatever the image holds there
Pull ==
    /\ dataset_result.kind = "filter"
    /\ pulled < Len(dataset_result.elements)
    /\ \E pixels \in ChunkContents(num_bands_dict[image_type],
                                   chunk_size * chunk_size) :
          last_pair' = [chunk |-> [desc |-> dataset_result.elements[pulled + 1].chunk.desc,
                                   idx |-> dataset_result.elements[pulled + 1].chunk.idx,
                                   pixels |-> pixels],
                        label |-> dataset_result.elements[pulled + 1].label,
                        kept |-> is_valid(pixels)]
    /\ pulled' = pulled + 1
    /\ UNCHANGED <<image_folder, image_type, num_regions, chunk_size,
                   cache_folder, init_status, list_file, self_num_regions,
                   self_ds, dataset_result, bandVars, codecVars, filterVars>>

NextDataset == Construct \/ CallDataset \/ Pull

SpecDataset == InitDataset /\ [][NextDataset]_vars

AllZero(chunk) == \A e \in Elements(chunk) : chunk[e[1]][e[2]] = 0
NoZero(chunk) == \A e \in Elements(chunk) : chunk[e[1]][e[2]] # 0

\* C2 as claimed: the inline filter keeps a pair unless every pixel of the
\* chunk, across all bands, is zero.
C2_KeptUnlessAllZero ==
    last_pair # <<>> => (last_pair.kept <=> ~AllZero(last_pair.chunk.pixels))

\* C2 amended: the inline filter keeps a pair exactly when no pixel of the
\* chunk, in any band, is zero; a chunk with at least one zero pixel is
\* dropped.
C2_KeptIffNoZero ==
    last_pair # <<>> => (last_pair.kept <=> NoZero(last_pair.chunk.pixels))

C2_Witness ==
    /\ last_pair # <<>>
    /\ ~last_pair.kept
    /\ ~AllZero(last_pair.chunk.pixels)
    /\ last_pair.chunk.pixels[0] = [j \in 0..(chunk_size * chunk_size - 1) |-> 1]

\* C4: for every line of the list the label batch is as long as the chunk
\* batch, and every pair that passes the filter holds the chunk and the
\* label of the same line and the same index in that line's batch.
C4_LabelsAligned ==
    init_status = "ok" =>
        /\ \A d \in 1..Len(ds_lines) :
              Len(load_fake_labels(ds_lines[d], image_folder, image_type,
                                   num_regions, chunk_size).value)
                = load_image_region(ds_lines[d], image_folder, image_type,
                                    num_regions, chunk_size).value
        /\ last_pair # <<>> =>
              /\ last_pair.chunk.desc = last_pair.label.desc
              /\ last_pair.chunk.idx = last_pair.label.idx

C4_Witness ==
    /\ last_pair # <<>>
    /\ last_pair.kept
    /\ last_pair.chunk.desc = 2
    /\ last_pair.label.desc = 2
    /\ last_pair.chunk.idx = 1
    /\ pulled = 3

MatchingFiles == {k \in 1..Len(image_folder) :
                    image_folder[k].ext = ext_dict[image_type]}

\* C7: when the list holds no entry the constructor fails on its assertion
\* and no dataset exists or is handed out; it succeeds only with at least
\* one entry, whose count it keeps.
C7_EmptyListFails ==
    init_status \notin {"none", "KeyError"} =>
        /\ Cardinality(MatchingFiles) * num_regions = 0 =>
              /\ init_status = "AssertionError"
              /\ self_ds = NoDataset
              /\ dataset_result = NoDataset
        /\ init_status = "ok" =>
              /\ Cardinality(MatchingFiles) * num_regions > 0
              /\ self_num_regions = Cardinality(MatchingFiles) * num_regions
              /\ self_ds.kind = "filter"

C7_Witness ==
    /\ init_status = "AssertionError"
    /\ Len(image_folder) = 2
    /\ MatchingFiles = {}
    /\ num_regions = 2
    /\ list_file = <<>>
    /\ self_ds = NoDataset
====
